---- MODULE Spec2Model ----
(***************************************************************************)
(* Model of the vm-wallet unlock client (src/src/main.rs).                 *)
(*                                                                         *)
(* One run of `main` is a sequential process whose position is `pc`; every *)
(* network call of the run is one step, so that the remote ledger (the     *)
(* unlock account, the clock sysvar) can change between two calls.  Runs   *)
(* follow one another against the same ledger and the same key files.      *)
(***************************************************************************)
EXTENDS Integers, Sequences, FiniteSets, TLC

(***************************************************************************)
(* Bounds of the model.                                                    *)
(***************************************************************************)
MaxClock == 2
MaxRuns == 2
MaxSeed == 2
UnlockDelay == 1

(***************************************************************************)
(* Program constants (main.rs:18-29).                                      *)
(***************************************************************************)
VM_PROGRAM_ID == "vmZ1WUq8SxjBWcaeTCvgJRZbS84R61uniFsQy5YMRTJ"
MINT_ADDRESS == "kinXdEcpDQeHPEuQnqmUgtYykqKGVFq6CeVX5iAHJq6"
VM_STATE_ACCOUNT == "FDrssd3RVeCkgHAT2NkEpkxC5UgfJpKHeebXUMnuzD6D"
VM_AUTHORITY == "f1ipC31qd2u88MjNYp1T4Cc7rnWfM9ivYpTV1Z8FHnD"
LOCK_DURATION == 21
CODE_VM == "code_vm"
VM_UNLOCK_ACCOUNT == "vm_unlock_pda_account"
SEED_LEN == 32

\* A program identifier other than VM_PROGRAM_ID: what a stale build of the
\* code_vm_api crate would derive addresses against.
STALE_PROGRAM_ID == "stale_program_id"
ProgramIds == {VM_PROGRAM_ID, STALE_PROGRAM_ID}

VARIABLES
    ledger,         \* remote ledger: unlock address -> account
    clock,          \* remote clock sysvar, unix_timestamp
    libProgramId,   \* program id the linked code_vm_api derives against
    ownerFile,      \* owner_key.json
    payerFile,      \* payer_key.json
    run,            \* number of the current run of main
    pc,             \* position of the current run
    outcome,        \* result of main: "running", "Ok", "Err", "Panic"
    errKind,        \* why the run ended, "none" while it has not failed
    completed,      \* "Unlock process completed successfully!" was printed
    context,        \* UnlockContext of the run
    unlock_pda,     \* main's unlock_pda
    unlock_state,   \* wait_for_unlock: unlock_state of the current iteration
    current_time,   \* wait_for_unlock: current_time of the current iteration
    txs,            \* transactions the run handed to the submitter, in order
    startLedger,    \* the ledger as it was when the run started
    checkRead,      \* what the existence check's get_account returned
    polled,         \* the run has read the unlock account in the poll loop
    clockRead,      \* the run has read the clock sysvar
    slept,          \* the run has slept in the poll loop
    setupInput,     \* the phrase typed at the run's mnemonic prompt, if any
    startOwnerFile  \* owner_key.json as it was when the run started

vars == <<ledger, clock, libProgramId, ownerFile, payerFile, run, pc, outcome,
          errKind, completed, context, unlock_pda, unlock_state, current_time,
          txs, startLedger, checkRead, polled, clockRead, slept, setupInput,
          startOwnerFile>>

(***************************************************************************)
(* Keys and key files.                                                     *)
(***************************************************************************)
KeySeeds == 1..MaxSeed
NoSeed == 0

\* Keypair::from_seed(..).pubkey(): the public key of a 32-byte seed.
PubkeyOf(seed) == <<"pubkey", seed>>
NoKey == PubkeyOf(NoSeed)

\* The 32 secret bytes of the key pair of a seed.
SecretBytes(seed) == [i \in 1..SEED_LEN |-> (seed * 41 + i * 7) % 256]

\* Keypair::from_seed: the key pair that 32 bytes stand for.
from_seed(bytes) == CHOOSE k \in 0..(MaxSeed + 1) : SecretBytes(k) = bytes

\* u8::to_string: the decimal digits of a byte.
to_string(b) ==
    IF b < 10 THEN <<b>>
    ELSE IF b < 100 THEN <<b \div 10, b % 10>>
    ELSE <<b \div 100, (b \div 10) % 10, b % 10>>

\* serde_json: the value of a decimal literal.
parse_number(ds) ==
    IF Len(ds) = 1 THEN ds[1]
    ELSE IF Len(ds) = 2 THEN ds[1] * 10 + ds[2]
    ELSE ds[1] * 100 + ds[2] * 10 + ds[3]

\* No file at the path.
NoFile == [private_key |-> <<>>, pubkey |-> NoKey]

\* The text of a key file: the array of decimal byte literals and the
\* public key string (the format! of setup_owner_keypair).
KeyFileText(bytes, pubkey) ==
    [private_key |-> [i \in 1..Len(bytes) |-> to_string(bytes[i])],
     pubkey |-> pubkey]

\* serde_json::from_str into KeyFileFormat: the private key bytes and the
\* public key string.
KeyFileFormat(file) ==
    [private_key |-> [i \in 1..Len(file.private_key) |->
                          parse_number(file.private_key[i])],
     pubkey |-> file.pubkey]

\* A key pair written with its 64 bytes, the secret followed by the public
\* half, instead of the 32 secret bytes.
keypair_to_bytes(seed) == SecretBytes(seed) \o SecretBytes(seed)

\* keypair.secret().to_bytes().to_vec()
private_key_vec(seed) == SecretBytes(seed)

(***************************************************************************)
(* Address derivation.                                                     *)
(***************************************************************************)
\* Pubkey::find_program_address: a keyed hash of the seeds and the program
\* id, modelled as the injective pairing of its inputs.
find_program_address(seeds, program_id) ==
    [program |-> program_id, seeds |-> seeds]

\* code_vm_api: find_virtual_timelock_address, derived against the crate's
\* own program id.
find_virtual_timelock_address(lib, mint, authority, owner, duration) ==
    find_program_address(
        <<CODE_VM, "vm_timelock", mint, authority, owner, duration>>, lib)

\* code_vm_api: find_unlock_address, derived against the crate's own
\* program id.
find_unlock_address(lib, owner, timelock, vm) ==
    find_program_address(<<CODE_VM, VM_UNLOCK_ACCOUNT, owner, timelock, vm>>, lib)

\* UnlockContext::get_unlock_pda
get_unlock_pda(lib, ctx) ==
    LET timelock_address ==
            find_virtual_timelock_address(lib, ctx.mint, ctx.vm_authority,
                                          PubkeyOf(ctx.owner), LOCK_DURATION)
    IN  find_unlock_address(lib, PubkeyOf(ctx.owner), timelock_address,
                            ctx.vm_state)

\* A verification that recomputes the address through the same helper as
\* the derivation, and one that accepts every address.
verify_with_helper(lib, ctx, pda) == pda = get_unlock_pda(lib, ctx)
verify_always_passes(lib, ctx, pda) == TRUE

\* UnlockContext::verify_unlock_pda
verify_unlock_pda(lib, ctx, pda) ==
    LET owner_pubkey == PubkeyOf(ctx.owner)
        timelock_address ==
            find_virtual_timelock_address(lib, ctx.mint, ctx.vm_authority,
                                          owner_pubkey, LOCK_DURATION)
        seeds == <<CODE_VM, VM_UNLOCK_ACCOUNT, owner_pubkey, timelock_address,
                   ctx.vm_state>>
        expected_pda == find_program_address(seeds, ctx.program_id)
    IN  pda = expected_pda

\* UnlockContext as built by UnlockContext::new from the two key files.
MakeContext(owner, payer) ==
    [program_id |-> VM_PROGRAM_ID, vm_state |-> VM_STATE_ACCOUNT,
     mint |-> MINT_ADDRESS, vm_authority |-> VM_AUTHORITY,
     owner |-> owner, payer |-> payer]

NoContext == MakeContext(NoSeed, NoSeed)

\* Every unlock address a run of the model can derive.
Addresses ==
    {get_unlock_pda(lib, MakeContext(o, NoSeed)) :
        lib \in ProgramIds, o \in 0..(MaxSeed + 1)}

NoPda == get_unlock_pda(VM_PROGRAM_ID, NoContext)

\* The addresses the unlock program itself derives, one per owner: the only
\* ones at which the ledger can hold an unlock account.
ProgramAddresses ==
    {get_unlock_pda(VM_PROGRAM_ID, MakeContext(o, NoSeed)) : o \in KeySeeds}

(***************************************************************************)
(* The mnemonic prompt of setup_owner_keypair.                             *)
(***************************************************************************)
Rep(w, n) == [i \in 1..n |-> w]

\* The words a user of the model may type.
InputWords == {"abandon", "about", "art", "zoo", "wrong", "zzzz", "About"}

\* chars().any(|c| !c.is_ascii_lowercase() && !c.is_whitespace()) on a word.
HasOtherChar(w) == w \in {"About"}

\* Membership in the BIP39 English word list.
InWordList(w) == w \in {"abandon", "about", "art", "zoo", "wrong"}

\* The phrase of the spec's scenario, whose checksum is valid.
ScenarioPhrase == Rep("abandon", 11) \o <<"about">>

\* Two more phrases whose checksum is valid (BIP39 test vectors), of 12 and
\* of 24 words.
ZooPhrase == Rep("zoo", 11) \o <<"wrong">>
LongPhrase == Rep("abandon", 23) \o <<"art">>
ValidMnemonics == {ScenarioPhrase, ZooPhrase, LongPhrase}

\* The phrases typed at the prompt, after trim() and split_whitespace().
PhraseInputs ==
    { ScenarioPhrase,
      ZooPhrase,
      LongPhrase,
      Rep("abandon", 12),
      Rep("abandon", 11),
      Rep("abandon", 12) \o <<"about">>,
      Rep("abandon", 11) \o <<"About">>,
      Rep("abandon", 11) \o <<"zzzz">>,
      <<>> }

\* Mnemonic::parse_normalized: every word is in the list and the checksum
\* holds.
parse_normalized(words) ==
    /\ \A i \in 1..Len(words) : InWordList(words[i])
    /\ words \in ValidMnemonics

\* mnemonic.to_seed("")[..32], and the key pair Keypair::from_seed makes of
\* it.
MnemonicSeed(words) ==
    IF words = ScenarioPhrase THEN 1
    ELSE IF words = ZooPhrase THEN MaxSeed
    ELSE IF words = LongPhrase THEN MaxSeed + 1
    ELSE NoSeed

\* A setup that leaves the word count to the mnemonic parser.
setup_without_word_count(words) ==
    IF \E i \in 1..Len(words) : HasOtherChar(words[i])
    THEN [result |-> "Mnemonic can only contain lowercase letters and spaces",
          file |-> NoFile]
    ELSE IF ~parse_normalized(words)
    THEN [result |-> "bip39 error", file |-> NoFile]
    ELSE LET keypair == MnemonicSeed(words)
         IN  [result |-> "ok",
              file |-> KeyFileText(private_key_vec(keypair), PubkeyOf(keypair))]

\* setup_owner_keypair: "ok" and the key file written, or the error.
setup_owner_keypair(words) ==
    IF Len(words) # 12
    THEN [result |-> "Mnemonic must be exactly 12 words", file |-> NoFile]
    ELSE IF \E i \in 1..Len(words) : HasOtherChar(words[i])
    THEN [result |-> "Mnemonic can only contain lowercase letters and spaces",
          file |-> NoFile]
    ELSE IF ~parse_normalized(words)
    THEN [result |-> "bip39 error", file |-> NoFile]
    ELSE LET keypair == MnemonicSeed(words)
         IN  [result |-> "ok",
              file |-> KeyFileText(private_key_vec(keypair), PubkeyOf(keypair))]

\* load_keypair_from_file: the seed of the key pair, an error for a file that
\* is absent, a panic for a private key that is not 32 bytes long.
load_keypair_from_file(file) ==
    IF file = NoFile THEN [result |-> "Err", seed |-> NoSeed]
    ELSE LET stored == KeyFileFormat(file)
         IN  IF Len(stored.private_key) # SEED_LEN
             THEN [result |-> "Panic", seed |-> NoSeed]
             ELSE [result |-> "Ok", seed |-> from_seed(stored.private_key)]

(***************************************************************************)
(* The remote ledger: the unlock program's account and the clock.          *)
(***************************************************************************)
AccountStates == {"none", "unknown", "waiting", "unlocked"}

Account(st, at) == [state |-> st, unlock_at |-> at]
NoAccount == Account("none", 0)

\* The unlock program's init instruction: creates the account in Waiting,
\* unlock_at = creation time + lock duration; rejected if it exists.
InitAccepted(l, pda) == l[pda].state = "none"
LedgerInit(l, pda, now) ==
    [l EXCEPT ![pda] = Account("waiting", now + UnlockDelay)]

\* The unlock program's finalize instruction: Waiting -> Unlocked once the
\* clock has reached unlock_at; rejected otherwise.
FinalizeAccepted(l, pda, now) ==
    l[pda].state = "waiting" /\ now >= l[pda].unlock_at
LedgerFinalize(l, pda) ==
    [l EXCEPT ![pda] = Account("unlocked", l[pda].unlock_at)]

(***************************************************************************)
(* Transactions handed to the transaction submitter.                       *)
(***************************************************************************)
\* create_unlock_ix / create_finalize_unlock_ix: the instruction, not yet
\* signed.
Instruction(kind, ctx, pda) ==
    [kind |-> kind, owner |-> PubkeyOf(ctx.owner), payer |-> PubkeyOf(ctx.payer),
     vm_state |-> ctx.vm_state, unlock_pda |-> pda,
     fee_payer |-> NoKey, signers |-> {}, sent |-> FALSE, result |-> "pending"]

\* A transaction that carries the fee payer's signature alone.
signed_by_payer_only(ix, ctx) ==
    [ix EXCEPT !.fee_payer = PubkeyOf(ctx.payer),
               !.signers = {PubkeyOf(ctx.payer)},
               !.result = "signed"]

\* Transaction::new_signed_with_payer(&[ix], Some(&payer), &[&payer, &owner], ..)
new_signed_with_payer(ix, ctx) ==
    [ix EXCEPT !.fee_payer = PubkeyOf(ctx.payer),
               !.signers = {PubkeyOf(ctx.payer), PubkeyOf(ctx.owner)},
               !.result = "signed"]

Last(s) == s[Len(s)]
SetLast(s, x) == [s EXCEPT ![Len(s)] = x]
TxsOf(kind) == {i \in 1..Len(txs) : txs[i].kind = kind}

(***************************************************************************)
(* The decisions of the orchestrator.                                      *)
(***************************************************************************)
\* What get_account returns: the account, NotFound, or a transport error.
ReadResults == {"ok", "not_found", "transport_err"}
get_account(l, pda, net) ==
    IF net = "down" THEN "transport_err"
    ELSE IF l[pda].state = "none" THEN "not_found" ELSE "ok"

\* An existence check that answers true whatever the read returned.
check_ignores_result(read) == TRUE

\* check_unlock_account: Ok(_) => Ok(true), Err(_) => Ok(false).
check_unlock_account(read) == read = "ok"

\* A Waiting test that accepts every state but Unlocked.
is_not_unlocked(st) == st.state # "unlocked"

\* UnlockStateAccount::is_unlocked / is_waiting
is_unlocked(st) == st.state = "unlocked"
is_waiting(st) == st.state = "waiting"

\* Deadline comparisons that are off by one, late and early.
DeadlineStrictlyPassed(now, st) == now > st.unlock_at
DeadlineWithinOne(now, st) == now + 1 >= st.unlock_at

\* wait_for_unlock: current_time >= unlock_state.unlock_at
DeadlineReached(now, st) == now >= st.unlock_at

Unread == Account("unread", 0)
NoTime == -1

(***************************************************************************)
(* Initial states: the ledger holds at most one unlock account, in any of  *)
(* its states, at an address of the unlock program; the key files are      *)
(* absent or well formed, or hold a 64-byte private key.                   *)
(***************************************************************************)
InitAccounts ==
    {NoAccount, Account("unknown", 0), Account("unlocked", 0)}
        \cup {Account("waiting", t) : t \in 0..UnlockDelay}

KeyFiles ==
    {NoFile} \cup {KeyFileText(SecretBytes(k), PubkeyOf(k)) : k \in KeySeeds}
             \cup {KeyFileText(keypair_to_bytes(1), PubkeyOf(1))}

NoInput == <<"">>

Init ==
    /\ \E a \in ProgramAddresses, acct \in InitAccounts :
           ledger = [x \in Addresses |-> IF x = a THEN acct ELSE NoAccount]
    /\ clock = 0
    /\ libProgramId \in ProgramIds
    /\ ownerFile \in KeyFiles
    /\ payerFile \in {NoFile, KeyFileText(SecretBytes(MaxSeed), PubkeyOf(MaxSeed))}
    /\ run = 1
    /\ pc = "main"
    /\ outcome = "running"
    /\ errKind = "none"
    /\ completed = FALSE
    /\ context = NoContext
    /\ unlock_pda = NoPda
    /\ unlock_state = Unread
    /\ current_time = NoTime
    /\ txs = <<>>
    /\ startLedger = ledger
    /\ checkRead = "none"
    /\ polled = FALSE
    /\ clockRead = FALSE
    /\ slept = FALSE
    /\ setupInput = NoInput
    /\ startOwnerFile = ownerFile

(***************************************************************************)
(* How a step of the run ends.                                             *)
(***************************************************************************)
Goto(p) ==
    /\ pc' = p
    /\ UNCHANGED <<outcome, errKind, completed>>

\* An Err(..) that reaches main's caller through `?`.
Fail(kind) ==
    /\ pc' = "done"
    /\ outcome' = "Err"
    /\ errKind' = kind
    /\ UNCHANGED completed

\* .expect(..) on a private key of the wrong length.
Panic(kind) ==
    /\ pc' = "done"
    /\ outcome' = "Panic"
    /\ errKind' = kind
    /\ UNCHANGED completed

\* main, after wait_for_unlock returned Ok(()): the completion message and
\* Ok(()).
Complete ==
    /\ pc' = "done"
    /\ outcome' = "Ok"
    /\ completed' = TRUE
    /\ UNCHANGED errKind

\* main, when verify_unlock_pda returned false: a message and Ok(()).
VerificationFailed ==
    /\ pc' = "done"
    /\ outcome' = "Ok"
    /\ errKind' = "PdaVerificationFailed"
    /\ UNCHANGED completed

\* A submitter error that is dropped instead of propagated: the run goes on
\* to the poll loop.
IgnoreTxError(kind) == Goto("poll_read")

\* The `?` after a failed get_latest_blockhash or send_and_confirm_transaction.
PropagateTxError(kind) == Fail(kind)

envVars == <<ledger, clock, libProgramId>>
fileVars == <<ownerFile, payerFile>>
loopVars == <<unlock_state, current_time>>
histVars == <<startLedger, checkRead, polled, clockRead, slept, setupInput,
              startOwnerFile>>

\* A first-time check that never finds the owner key file.
owner_key_never_exists(file) == FALSE

\* std::path::Path::new("owner_key.json").exists()
owner_key_exists(file) == file # NoFile

(***************************************************************************)
(* main, lines 273-277: first-time setup of the owner key file.            *)
(***************************************************************************)
main_setup ==
    /\ pc = "main"
    /\ IF owner_key_exists(ownerFile)
       THEN /\ Goto("new")
            /\ UNCHANGED <<ownerFile, setupInput>>
       ELSE \E words \in PhraseInputs :
               LET r == setup_owner_keypair(words)
               IN  /\ setupInput' = words
                   /\ IF r.result = "ok"
                      THEN /\ ownerFile' = r.file
                           /\ Goto("new")
                      ELSE /\ Fail(r.result)
                           /\ UNCHANGED ownerFile
    /\ UNCHANGED <<envVars, payerFile, run, context, unlock_pda, loopVars, txs,
                   startLedger, checkRead, polled, clockRead, slept,
                   startOwnerFile>>

(***************************************************************************)
(* UnlockContext::new, line 279.                                           *)
(***************************************************************************)
UnlockContext_new ==
    /\ pc = "new"
    /\ LET o == load_keypair_from_file(ownerFile)
           p == load_keypair_from_file(payerFile)
       IN  IF o.result = "Err" THEN Fail("ConfigError") /\ UNCHANGED context
           ELSE IF o.result = "Panic"
           THEN Panic("Invalid private key length") /\ UNCHANGED context
           ELSE IF p.result = "Err" THEN Fail("ConfigError") /\ UNCHANGED context
           ELSE IF p.result = "Panic"
           THEN Panic("Invalid private key length") /\ UNCHANGED context
           ELSE /\ context' = MakeContext(o.seed, p.seed)
                /\ Goto("verify")
    /\ UNCHANGED <<envVars, fileVars, run, unlock_pda, loopVars, txs, histVars>>

(***************************************************************************)
(* main, lines 281-288: derive the unlock address and verify it.           *)
(***************************************************************************)
main_verify ==
    /\ pc = "verify"
    /\ unlock_pda' = get_unlock_pda(libProgramId, context)
    /\ IF ~verify_unlock_pda(libProgramId, context, unlock_pda')
       THEN VerificationFailed
       ELSE Goto("check")
    /\ UNCHANGED <<envVars, fileVars, run, context, loopVars, txs, histVars>>

(***************************************************************************)
(* main, lines 290-296: the existence check, and the entry into            *)
(* send_unlock_tx (lines 163-175) when it answers false.                   *)
(***************************************************************************)
main_check ==
    /\ pc = "check"
    /\ \E net \in {"up", "down"} :
          LET read == get_account(ledger, unlock_pda, net)
          IN  /\ checkRead' = read
              /\ IF check_unlock_account(read)
                 THEN /\ Goto("poll_read")
                      /\ UNCHANGED txs
                 ELSE /\ txs' = Append(txs,
                             Instruction("init_unlock", context,
                                         get_unlock_pda(libProgramId, context)))
                      /\ Goto("init_blockhash")
    /\ UNCHANGED <<envVars, fileVars, run, context, unlock_pda, loopVars,
                   startLedger, polled, clockRead, slept, setupInput,
                   startOwnerFile>>

(***************************************************************************)
(* send_unlock_tx, lines 176-184: the block reference and the signatures.  *)
(***************************************************************************)
send_unlock_tx_blockhash ==
    /\ pc = "init_blockhash"
    /\ \E net \in {"up", "down"} :
          IF net = "down"
          THEN /\ txs' = SetLast(txs, [Last(txs) EXCEPT !.result = "blockhash_err"])
               /\ PropagateTxError("TransportError")
          ELSE /\ txs' = SetLast(txs, new_signed_with_payer(Last(txs), context))
               /\ Goto("init_send")
    /\ UNCHANGED <<envVars, fileVars, run, context, unlock_pda, loopVars, histVars>>

(***************************************************************************)
(* send_unlock_tx, lines 186-189, and main, lines 297-298.                 *)
(***************************************************************************)
send_unlock_tx_send ==
    /\ pc = "init_send"
    /\ LET tx == [Last(txs) EXCEPT !.sent = TRUE]
           pda == tx.unlock_pda
       IN  \/ /\ InitAccepted(ledger, pda)
              /\ ledger' = LedgerInit(ledger, pda, clock)
              /\ txs' = SetLast(txs, [tx EXCEPT !.result = "confirmed"])
              /\ Goto("poll_read")
           \/ /\ UNCHANGED ledger
              /\ txs' = SetLast(txs, [tx EXCEPT !.result = "rejected"])
              /\ PropagateTxError("SubmissionError")
           \/ /\ \/ UNCHANGED ledger
                 \/ /\ InitAccepted(ledger, pda)
                    /\ ledger' = LedgerInit(ledger, pda, clock)
              /\ txs' = SetLast(txs, [tx EXCEPT !.result = "timeout"])
              /\ PropagateTxError("ConfirmationTimeout")
    /\ UNCHANGED <<clock, libProgramId, fileVars, run, context, unlock_pda,
                   loopVars, histVars>>

(***************************************************************************)
(* wait_for_unlock, lines 222-232: read and decode the unlock account.     *)
(***************************************************************************)
wait_for_unlock_state ==
    /\ pc = "poll_read"
    /\ polled' = TRUE
    /\ \E net \in {"up", "down"} :
          LET read == get_account(ledger, unlock_pda, net)
          IN  IF read # "ok"
              THEN /\ Fail(IF read = "not_found" THEN "NotFound" ELSE "TransportError")
                   /\ UNCHANGED unlock_state
              ELSE /\ unlock_state' = ledger[unlock_pda]
                   /\ IF is_unlocked(unlock_state') THEN Complete
                      ELSE IF ~is_waiting(unlock_state') THEN Fail("InvalidUnlockState")
                      ELSE Goto("poll_clock")
    /\ UNCHANGED <<envVars, fileVars, run, context, unlock_pda, current_time, txs,
                   startLedger, checkRead, clockRead, slept, setupInput,
                   startOwnerFile>>

(***************************************************************************)
(* wait_for_unlock, lines 234-257: read the clock sysvar and compare; on   *)
(* the deadline, the entry into send_finalize_unlock_tx (line 206).        *)
(***************************************************************************)
wait_for_unlock_clock ==
    /\ pc = "poll_clock"
    /\ \E net \in {"up", "down"} :
          IF net = "down"
          THEN /\ Fail("TransportError")
               /\ UNCHANGED <<current_time, clockRead, txs>>
          ELSE /\ current_time' = clock
               /\ clockRead' = TRUE
               /\ IF DeadlineReached(current_time', unlock_state)
                  THEN /\ txs' = Append(txs,
                              Instruction("finalize_unlock", context, unlock_pda))
                       /\ Goto("fin_blockhash")
                  ELSE /\ UNCHANGED txs
                       /\ Goto("sleep")
    /\ UNCHANGED <<envVars, fileVars, run, context, unlock_pda, unlock_state,
                   startLedger, checkRead, polled, slept, setupInput,
                   startOwnerFile>>

\* A poll loop that gives up after its sleep.
sleep_gives_up ==
    /\ pc = "sleep"
    /\ slept' = TRUE
    /\ Fail("PollTimeout")
    /\ UNCHANGED <<envVars, fileVars, run, context, unlock_pda, loopVars, txs,
                   startLedger, checkRead, polled, clockRead, setupInput,
                   startOwnerFile>>

\* A sleep after which the loop goes on with the account state it read
\* before sleeping.
sleep_keeps_state ==
    /\ pc = "sleep"
    /\ slept' = TRUE
    /\ current_time' = NoTime
    /\ Goto("poll_clock")
    /\ UNCHANGED <<envVars, fileVars, run, context, unlock_pda, unlock_state, txs,
                   startLedger, checkRead, polled, clockRead, setupInput,
                   startOwnerFile>>

(***************************************************************************)
(* wait_for_unlock, lines 258-259: sleep, then the next iteration; the     *)
(* iteration's unlock_state and current_time go out of scope.              *)
(***************************************************************************)
wait_for_unlock_sleep ==
    /\ pc = "sleep"
    /\ slept' = TRUE
    /\ unlock_state' = Unread
    /\ current_time' = NoTime
    /\ Goto("poll_read")
    /\ UNCHANGED <<envVars, fileVars, run, context, unlock_pda, txs, startLedger,
                   checkRead, polled, clockRead, setupInput, startOwnerFile>>

(***************************************************************************)
(* send_finalize_unlock_tx, lines 207-214.                                 *)
(***************************************************************************)
send_finalize_unlock_tx_blockhash ==
    /\ pc = "fin_blockhash"
    /\ \E net \in {"up", "down"} :
          IF net = "down"
          THEN /\ txs' = SetLast(txs, [Last(txs) EXCEPT !.result = "blockhash_err"])
               /\ PropagateTxError("TransportError")
          ELSE /\ txs' = SetLast(txs, new_signed_with_payer(Last(txs), context))
               /\ Goto("fin_send")
    /\ UNCHANGED <<envVars, fileVars, run, context, unlock_pda, loopVars, histVars>>

(***************************************************************************)
(* send_finalize_unlock_tx, lines 216-218; wait_for_unlock returns its     *)
(* result (line 250) and main completes (lines 301-302).                   *)
(***************************************************************************)
send_finalize_unlock_tx_send ==
    /\ pc = "fin_send"
    /\ LET tx == [Last(txs) EXCEPT !.sent = TRUE]
           pda == tx.unlock_pda
       IN  \/ /\ FinalizeAccepted(ledger, pda, clock)
              /\ ledger' = LedgerFinalize(ledger, pda)
              /\ txs' = SetLast(txs, [tx EXCEPT !.result = "confirmed"])
              /\ Complete
           \/ /\ UNCHANGED ledger
              /\ txs' = SetLast(txs, [tx EXCEPT !.result = "rejected"])
              /\ PropagateTxError("SubmissionError")
           \/ /\ \/ UNCHANGED ledger
                 \/ /\ FinalizeAccepted(ledger, pda, clock)
                    /\ ledger' = LedgerFinalize(ledger, pda)
              /\ txs' = SetLast(txs, [tx EXCEPT !.result = "timeout"])
              /\ PropagateTxError("ConfirmationTimeout")
    /\ UNCHANGED <<clock, libProgramId, fileVars, run, context, unlock_pda,
                   loopVars, histVars>>

(***************************************************************************)
(* The next invocation of the program, against the same ledger and files.  *)
(***************************************************************************)
NextRun ==
    /\ pc = "done"
    /\ run < MaxRuns
    /\ run' = run + 1
    /\ pc' = "main"
    /\ outcome' = "running"
    /\ errKind' = "none"
    /\ completed' = FALSE
    /\ context' = NoContext
    /\ unlock_pda' = NoPda
    /\ unlock_state' = Unread
    /\ current_time' = NoTime
    /\ txs' = <<>>
    /\ startLedger' = ledger
    /\ checkRead' = "none"
    /\ polled' = FALSE
    /\ clockRead' = FALSE
    /\ slept' = FALSE
    /\ setupInput' = NoInput
    /\ startOwnerFile' = ownerFile
    /\ UNCHANGED <<envVars, fileVars>>

(***************************************************************************)
(* The environment: the remote clock advances; another holder of the keys  *)
(* finalizes the unlock.                                                   *)
(***************************************************************************)
ClockTick ==
    /\ clock < MaxClock
    /\ clock' = clock + 1
    /\ UNCHANGED <<ledger, libProgramId, fileVars, run, pc, outcome, errKind,
                   completed, context, unlock_pda, loopVars, txs, histVars>>

ExternalFinalize ==
    /\ \E pda \in Addresses :
          /\ FinalizeAccepted(ledger, pda, clock)
          /\ ledger' = LedgerFinalize(ledger, pda)
    /\ UNCHANGED <<clock, libProgramId, fileVars, run, pc, outcome, errKind,
                   completed, context, unlock_pda, loopVars, txs, histVars>>

Next ==
    \/ main_setup
    \/ UnlockContext_new
    \/ main_verify
    \/ main_check
    \/ send_unlock_tx_blockhash
    \/ send_unlock_tx_send
    \/ wait_for_unlock_state
    \/ wait_for_unlock_clock
    \/ wait_for_unlock_sleep
    \/ send_finalize_unlock_tx_blockhash
    \/ send_finalize_unlock_tx_send
    \/ NextRun
    \/ ClockTick
    \/ ExternalFinalize

Spec == Init /\ [][Next]_vars

(***************************************************************************)
(* The same program under the scheduling it runs with: the process is      *)
(* single-threaded and every call blocks until it returns, so a run that   *)
(* can take a step takes it; the remote clock keeps advancing.  The poll   *)
(* loop belongs to one invocation, which is what this specification runs.  *)
(***************************************************************************)
RunStep ==
    \/ main_setup
    \/ UnlockContext_new
    \/ main_verify
    \/ main_check
    \/ send_unlock_tx_blockhash
    \/ send_unlock_tx_send
    \/ wait_for_unlock_state
    \/ wait_for_unlock_clock
    \/ wait_for_unlock_sleep
    \/ send_finalize_unlock_tx_blockhash
    \/ send_finalize_unlock_tx_send

\* One invocation of the program, with the environment around it.
LiveNext ==
    \/ RunStep
    \/ ClockTick
    \/ ExternalFinalize

LiveSpec == Init /\ [][LiveNext]_vars /\ WF_vars(RunStep) /\ WF_vars(ClockTick)

(***************************************************************************)
(* Vocabulary of the properties.                                           *)
(***************************************************************************)
\* The run has derived its unlock address and verify_unlock_pda accepted it.
VerificationPassed ==
    /\ unlock_pda # NoPda
    /\ unlock_pda = find_program_address(unlock_pda.seeds, VM_PROGRAM_ID)

\* The state of the account at the run's unlock address when the run started.
StartState == startLedger[unlock_pda].state

\* The transactions of a kind that reached send_and_confirm_transaction.
SentOf(kind) == {i \in TxsOf(kind) : txs[i].sent}

FailedResults == {"blockhash_err", "rejected", "timeout"}

\* The current poll iteration has read the account as Waiting and the clock.
IterationRead ==
    /\ unlock_state.state = "waiting"
    /\ current_time # NoTime

(***************************************************************************)
(* C1: a run that starts when an unlock account already exists at the      *)
(* unlock address, Waiting or Unlocked, never submits init_unlock.         *)
(* Violated: a transport error in the existence check is taken for         *)
(* absence (C2), and the run then sends init_unlock.                       *)
(***************************************************************************)
C1_NoInitWhenAccountExists ==
    (VerificationPassed /\ StartState \in {"waiting", "unlocked"})
        => SentOf("init_unlock") = {}

(***************************************************************************)
(* C2: when the existence check's read fails with a transport error, the   *)
(* run ends with a TransportError instead of taking the AccountMissing     *)
(* branch.  Violated: check_unlock_account maps every Err to Ok(false).    *)
(***************************************************************************)
C2_TransportErrorIsNotAbsence ==
    checkRead = "transport_err"
        => /\ pc = "done"
           /\ outcome = "Err"
           /\ errKind = "TransportError"
           /\ TxsOf("init_unlock") = {}

(***************************************************************************)
(* C3: in a poll iteration that read the account as Waiting and a clock    *)
(* value >= unlock_at, the run hands finalize_unlock to the submitter in   *)
(* that iteration, does not sleep or start another iteration, and ends     *)
(* with the result of that submission.                                     *)
(***************************************************************************)
C3_FinalizeOnSameIteration ==
    (IterationRead /\ current_time >= unlock_state.unlock_at)
        => /\ pc \in {"fin_blockhash", "fin_send", "done"}
           /\ Len(txs) >= 1
           /\ Last(txs).kind = "finalize_unlock"
           /\ Last(txs).unlock_pda = unlock_pda
           /\ pc = "fin_blockhash" => Last(txs).result = "pending"
           /\ pc = "fin_send" => Last(txs).result = "signed"
           /\ pc = "done" =>
                 /\ Last(txs).result \in FailedResults \cup {"confirmed"}
                 /\ (outcome = "Ok") = (Last(txs).result = "confirmed")
                 /\ (outcome = "Err") = (Last(txs).result \in FailedResults)

C3_Witness ==
    /\ IterationRead
    /\ current_time = unlock_state.unlock_at
    /\ slept
    /\ pc = "done"
    /\ Last(txs).kind = "finalize_unlock"
    /\ Last(txs).result = "confirmed"

(***************************************************************************)
(* C4: finalize_unlock is only ever submitted in an iteration that read    *)
(* the account as Waiting and a clock value >= unlock_at; an iteration     *)
(* that read a clock value < unlock_at sleeps, and the iteration after the *)
(* sleep starts from a fresh read of the account and takes its clock value *)
(* from a fresh read of the clock.                                         *)
(***************************************************************************)
C4_Safety ==
    /\ \A i \in TxsOf("finalize_unlock") :
          /\ i = Len(txs)
          /\ IterationRead
          /\ current_time >= unlock_state.unlock_at
    /\ (IterationRead /\ current_time < unlock_state.unlock_at)
          => pc = "sleep" /\ TxsOf("finalize_unlock") = {}
    /\ pc = "poll_read" => unlock_state = Unread /\ current_time = NoTime
    /\ pc = "poll_clock" => unlock_state.state = "waiting" /\ current_time = NoTime

C4_Steps ==
    /\ (pc = "sleep" /\ pc' # pc) => pc' = "poll_read"
    /\ (pc = "poll_read" /\ pc' = "poll_clock") => unlock_state' = ledger[unlock_pda]
    /\ (pc = "poll_clock" /\ pc' \in {"sleep", "fin_blockhash"}) => current_time' = clock

C4_NoEarlyFinalize == []C4_Safety /\ [][C4_Steps]_vars

C4_Witness ==
    /\ pc = "sleep"
    /\ slept
    /\ IterationRead
    /\ current_time + 1 = unlock_state.unlock_at

(***************************************************************************)
(* C5: a run that reports successful completion has submitted and          *)
(* confirmed a withdraw transaction.  Violated: main completes as soon as  *)
(* wait_for_unlock returns; no withdraw is ever built.                     *)
(***************************************************************************)
C5_CompletedImpliesWithdraw ==
    completed => \E i \in TxsOf("withdraw") : txs[i].result = "confirmed"

(***************************************************************************)
(* C6: when the derived unlock address differs from the recomputed one,    *)
(* the run ends with an error result.  Violated: main prints a message     *)
(* and returns Ok(()).                                                     *)
(***************************************************************************)
C6_MismatchIsFatal ==
    (pc = "done" /\ unlock_pda # NoPda /\ ~VerificationPassed) => outcome = "Err"

(***************************************************************************)
(* C7: a run that starts when the unlock account is already Unlocked       *)
(* submits neither init_unlock nor finalize_unlock, reads no clock and     *)
(* never sleeps.  Violated: a transport error in the existence check is    *)
(* taken for absence (C2), and the run then sends init_unlock.             *)
(***************************************************************************)
C7_UnlockedSkipsEverything ==
    (VerificationPassed /\ StartState = "unlocked")
        => /\ TxsOf("init_unlock") = {}
           /\ TxsOf("finalize_unlock") = {}
           /\ ~clockRead
           /\ ~slept

(***************************************************************************)
(* C8: a run that starts when no account exists at the unlock address and  *)
(* whose verification passed hands exactly one init_unlock, for that       *)
(* address, to the submitter, before any read of the poll loop and before  *)
(* any finalize_unlock; once it is confirmed the run is in the poll loop,  *)
(* without an error.                                                       *)
(***************************************************************************)
C8_InitThenPoll ==
    (VerificationPassed /\ StartState = "none" /\ pc # "check")
        => /\ Len(txs) >= 1
           /\ txs[1].kind = "init_unlock"
           /\ txs[1].unlock_pda = unlock_pda
           /\ Cardinality(TxsOf("init_unlock")) = 1
           /\ pc \in {"init_blockhash", "init_send"} => ~polled /\ Len(txs) = 1
           /\ polled => txs[1].result = "confirmed"
           /\ (txs[1].result = "confirmed" /\ ~polled)
                 => pc = "poll_read" /\ outcome = "running" /\ errKind = "none"
           /\ (pc = "done" /\ Len(txs) = 1 /\ ~polled)
                 => outcome = "Err" /\ txs[1].result \in FailedResults

C8_Witness ==
    /\ VerificationPassed
    /\ StartState = "none"
    /\ txs # <<>>
    /\ txs[1].result = "confirmed"
    /\ polled
    /\ pc = "poll_clock"

(***************************************************************************)
(* C9: a poll iteration that decodes a state that is neither Waiting nor   *)
(* Unlocked ends the run with InvalidUnlockState, without a clock read, a  *)
(* sleep or a finalize_unlock in that iteration.                           *)
(***************************************************************************)
C9_InvalidStateIsFatal ==
    (unlock_state # Unread /\ unlock_state.state \notin {"waiting", "unlocked"})
        => /\ pc = "done"
           /\ outcome = "Err"
           /\ errKind = "InvalidUnlockState"
           /\ current_time = NoTime
           /\ TxsOf("finalize_unlock") = {}

C9_Witness ==
    /\ unlock_state.state = "unknown"
    /\ pc = "done"
    /\ errKind = "InvalidUnlockState"

(***************************************************************************)
(* C10: a failed init_unlock or finalize_unlock is the last transaction of *)
(* its run and ends the run with an error; a run submits init_unlock at    *)
(* most once and finalize_unlock at most once.                             *)
(***************************************************************************)
C10_NoRetry ==
    /\ \A i \in 1..Len(txs) :
          txs[i].result \in FailedResults
              => /\ i = Len(txs)
                 /\ pc = "done"
                 /\ outcome = "Err"
                 /\ errKind \in {"TransportError", "SubmissionError",
                                 "ConfirmationTimeout"}
    /\ Cardinality(TxsOf("init_unlock")) <= 1
    /\ Cardinality(TxsOf("finalize_unlock")) <= 1

C10_Witness ==
    /\ Len(txs) = 2
    /\ txs[1].result = "confirmed"
    /\ txs[2].kind = "finalize_unlock"
    /\ txs[2].result = "timeout"
    /\ pc = "done"

(***************************************************************************)
(* C11: every transaction that reaches send_and_confirm_transaction        *)
(* carries the signatures of both the payer and the owner key pair of the  *)
(* run, and names the payer as fee payer.                                  *)
(***************************************************************************)
C11_BothSign ==
    \A i \in 1..Len(txs) :
        txs[i].result # "pending" /\ txs[i].result # "blockhash_err"
            => /\ txs[i].kind \in {"init_unlock", "finalize_unlock"}
               /\ txs[i].signers = {PubkeyOf(context.payer), PubkeyOf(context.owner)}
               /\ txs[i].fee_payer = PubkeyOf(context.payer)
               /\ txs[i].owner = PubkeyOf(context.owner)
               /\ txs[i].payer = PubkeyOf(context.payer)

C11_Witness ==
    /\ Len(txs) = 2
    /\ txs[1].sent
    /\ txs[2].sent
    /\ context.owner # context.payer
    /\ Cardinality(txs[2].signers) = 2

(***************************************************************************)
(* C14: for every phrase the setup routine accepts, the key file it writes *)
(* reloads, through the key loader, to a key pair whose public key is the  *)
(* public key string recorded in the file.                                 *)
(***************************************************************************)
\* The run was prompted for a mnemonic.
Prompted == setupInput # NoInput

C14_RoundTrip ==
    /\ \A words \in PhraseInputs :
          LET r == setup_owner_keypair(words)
              k == load_keypair_from_file(r.file)
          IN  r.result = "ok"
                  => k.result = "Ok" /\ PubkeyOf(k.seed) = r.file.pubkey
    /\ (Prompted /\ ownerFile # NoFile) =>
          LET k == load_keypair_from_file(ownerFile)
          IN  /\ k.result = "Ok"
              /\ PubkeyOf(k.seed) = ownerFile.pubkey
              /\ Len(ownerFile.private_key) = 32
              /\ context # NoContext => PubkeyOf(context.owner) = ownerFile.pubkey

C14_Witness ==
    /\ setupInput = ZooPhrase
    /\ pc = "verify"
    /\ context # NoContext
    /\ PubkeyOf(context.owner) = ownerFile.pubkey

(***************************************************************************)
(* C15: the setup writes the owner key file only for a phrase of exactly   *)
(* 12 words made of lowercase letters; for any other input the run ends    *)
(* with an error, no owner key file is written, and nothing was read from  *)
(* or submitted to the network.                                            *)
(***************************************************************************)
TwelveLowercaseWords(words) ==
    /\ Len(words) = 12
    /\ \A i \in 1..Len(words) : words[i] \notin {"About"}

C15_SetupValidation ==
    Prompted =>
        /\ ownerFile # NoFile => TwelveLowercaseWords(setupInput)
        /\ ~TwelveLowercaseWords(setupInput) =>
              /\ pc = "done"
              /\ outcome = "Err"
              /\ ownerFile = NoFile
              /\ context = NoContext
              /\ checkRead = "none"
              /\ ~polled
              /\ ~clockRead
              /\ txs = <<>>

C15_Witness ==
    /\ setupInput = LongPhrase
    /\ pc = "done"
    /\ errKind = "Mnemonic must be exactly 12 words"
    /\ ownerFile = NoFile

(***************************************************************************)
(* C19: a run that finds an owner key file when it starts never prompts    *)
(* for a mnemonic and leaves the file as it was; the file only ever        *)
(* changes from absent to written, in the setup step.                      *)
(***************************************************************************)
C19_Safety ==
    startOwnerFile # NoFile => ~Prompted /\ ownerFile = startOwnerFile

C19_Steps ==
    ownerFile' # ownerFile => ownerFile = NoFile /\ pc = "main" /\ pc' = "new"

C19_SetupOnlyWhenAbsent == []C19_Safety /\ [][C19_Steps]_vars

C19_Witness ==
    /\ run = 2
    /\ startOwnerFile # NoFile
    /\ ownerFile = startOwnerFile
    /\ pc = "check"

(***************************************************************************)
(* C13: the address recomputed by verify_unlock_pda equals the one         *)
(* get_unlock_pda derived exactly when the two paths use the same inputs:  *)
(* with the owner key, the VM state account, an input of the timelock      *)
(* address or the program id altered on one path, verification reports a   *)
(* mismatch; with unaltered inputs it passes.                              *)
(***************************************************************************)
\* The contexts that differ from ctx in one seed input of the derivation.
AlteredSeeds(ctx) ==
    {[ctx EXCEPT !.owner = o] : o \in (0..(MaxSeed + 1)) \ {ctx.owner}}
        \cup {[ctx EXCEPT !.vm_state = "other_vm_state"],
              [ctx EXCEPT !.mint = "other_mint"],
              [ctx EXCEPT !.vm_authority = "other_authority"]}

C13_VerificationSoundness ==
    context # NoContext =>
        LET pda == get_unlock_pda(libProgramId, context)
        IN  /\ verify_unlock_pda(libProgramId, context, pda)
                  = (libProgramId = context.program_id)
            /\ \A alt \in AlteredSeeds(context) :
                  ~verify_unlock_pda(libProgramId, alt, pda)
            /\ \A alt \in AlteredSeeds(context) :
                  ~verify_unlock_pda(libProgramId, context,
                                     get_unlock_pda(libProgramId, alt))
            /\ \A id \in ProgramIds \ {context.program_id} :
                  ~verify_unlock_pda(libProgramId,
                                     [context EXCEPT !.program_id = id],
                                     get_unlock_pda(context.program_id, context))
            /\ pc \notin {"main", "new", "verify"} =>
                  /\ unlock_pda = pda
                  /\ (libProgramId # context.program_id) =
                        (pc = "done" /\ errKind = "PdaVerificationFailed")

C13_Witness ==
    /\ pc = "done"
    /\ errKind = "PdaVerificationFailed"
    /\ libProgramId = STALE_PROGRAM_ID
    /\ context.owner = MaxSeed

(***************************************************************************)
(* C16: a run reads no account and hands no transaction to the submitter   *)
(* before its verification has passed, and none at all when it failed.     *)
(***************************************************************************)
RemoteInteraction ==
    \/ checkRead # "none"
    \/ polled
    \/ clockRead
    \/ txs # <<>>
    \/ unlock_state # Unread
    \/ current_time # NoTime

C16_VerifyBeforeRemote ==
    /\ RemoteInteraction => VerificationPassed
    /\ pc \in {"main", "new", "verify"} => ~RemoteInteraction
    /\ pc \notin {"main", "new", "verify", "done"} => VerificationPassed
    /\ ledger # startLedger => VerificationPassed \/ pc \in {"main", "new", "verify", "done"}

C16_Witness ==
    /\ run = 2
    /\ pc = "done"
    /\ errKind = "PdaVerificationFailed"
    /\ ~RemoteInteraction

(***************************************************************************)
(* C17: every iteration of the poll loop starts from a fresh read of the   *)
(* unlock account.  When the account has been finalized by someone else    *)
(* by the time of that read, the run ends successfully without handing     *)
(* finalize_unlock to the submitter (or with the read's transport error);  *)
(* when it is finalized by someone else after the read and before the      *)
(* run's own finalize_unlock is sent, the failed submission ends the run   *)
(* with an error and nothing is submitted again.                           *)
(***************************************************************************)
C17_Steps ==
    /\ (pc = "sleep" /\ pc' # pc)
          => pc' = "poll_read" /\ unlock_state' = Unread /\ current_time' = NoTime
    /\ (pc = "poll_read" /\ pc' # pc /\ unlock_state' # Unread)
          => unlock_state' = ledger[unlock_pda]
    /\ (pc = "poll_read" /\ pc' # pc /\ ledger[unlock_pda].state = "unlocked")
          => /\ pc' = "done"
             /\ txs' = txs
             /\ \/ outcome' = "Ok" /\ completed' /\ unlock_state'.state = "unlocked"
                \/ outcome' = "Err" /\ errKind' = "TransportError"
    /\ (pc = "fin_blockhash" /\ pc' # pc) => pc' \in {"fin_send", "done"}
    /\ (pc = "fin_send" /\ pc' # pc /\ ledger[unlock_pda].state = "unlocked")
          => /\ pc' = "done"
             /\ outcome' = "Err"
             /\ errKind' \in {"SubmissionError", "ConfirmationTimeout"}
             /\ Len(txs') = Len(txs)
             /\ Last(txs').result \in {"rejected", "timeout"}
             /\ ledger' = ledger

C17_FreshReadEachIteration == [][C17_Steps]_vars

C17_Witness ==
    /\ VerificationPassed
    /\ StartState = "waiting"
    /\ slept
    /\ pc = "done"
    /\ outcome = "Ok"
    /\ completed
    /\ txs = <<>>
    /\ unlock_state.state = "unlocked"

(***************************************************************************)
(* C18: a run ends with a success result only if it read the unlock        *)
(* account as Unlocked or its own finalize_unlock was confirmed, and the   *)
(* remote account is then Unlocked.  Violated: on a verification mismatch  *)
(* main returns Ok(()) (C6) without either.                                *)
(***************************************************************************)
C18_SuccessImpliesUnlocked ==
    (pc = "done" /\ outcome = "Ok")
        => /\ \/ unlock_state.state = "unlocked"
              \/ \E i \in TxsOf("finalize_unlock") : txs[i].result = "confirmed"
           /\ ledger[unlock_pda].state = "unlocked"

(***************************************************************************)
(* C12: from a poll iteration that starts with the account Waiting and a   *)
(* deadline the clock reaches, the run ends having handed finalize_unlock  *)
(* to the submitter, unless a network call fails or the account is         *)
(* finalized by someone else first.  The loop has no limit of its own:     *)
(* while the account is Waiting and the clock is below unlock_at the run   *)
(* leaves the loop only through a failed network call, and every iteration *)
(* below the deadline is followed by another.                              *)
(***************************************************************************)
PollPcs == {"poll_read", "poll_clock", "sleep", "fin_blockhash", "fin_send"}

StillLocked ==
    /\ ledger[unlock_pda].state = "waiting"
    /\ clock < ledger[unlock_pda].unlock_at

C12_Terminated ==
    /\ pc = "done"
    /\ \/ TxsOf("finalize_unlock") # {}
       \/ outcome = "Err" /\ errKind = "TransportError"
       \/ outcome = "Ok" /\ unlock_state.state = "unlocked"

C12_Finalizes ==
    (/\ pc = "poll_read"
     /\ ledger[unlock_pda].state = "waiting"
     /\ ledger[unlock_pda].unlock_at <= MaxClock) ~> C12_Terminated

C12_KeepsPolling ==
    /\ (pc = "poll_read" /\ ledger[unlock_pda].state = "waiting"
            /\ ledger[unlock_pda].unlock_at > MaxClock)
          ~> (pc = "sleep" \/ (pc = "done" /\ errKind = "TransportError"))
    /\ (pc = "sleep") ~> (pc = "poll_read")

C12_NoLimit ==
    (pc \in PollPcs /\ pc' # pc /\ StillLocked)
        => /\ pc \in {"poll_read", "poll_clock", "sleep"}
           /\ pc' \in {"poll_read", "poll_clock", "sleep", "done"}
           /\ pc' = "done" => outcome' = "Err" /\ errKind' = "TransportError"

C12_PollLiveness == C12_Finalizes /\ C12_KeepsPolling /\ [][C12_NoLimit]_vars

C12_Witness ==
    /\ slept
    /\ pc = "fin_send"
    /\ Last(txs).kind = "finalize_unlock"
    /\ StartState = "waiting"
    /\ ledger[unlock_pda].state = "waiting"

====
